---- MODULE Spec2Model ----
(***************************************************************************)
(* Model of the eSewa signature generation of                              *)
(* PaymentIntegration_Esewa/Esewa: the Django view paymentHandler          *)
(* (views.py) and the standalone script secret.py.                         *)
(*                                                                         *)
(* Python values are represented as follows.                               *)
(*   str    a sequence of Unicode code points (naturals)                   *)
(*   bytes  a sequence of naturals in 0..255                               *)
(*   int    an integer                                                     *)
(*   UUID   the 16 bytes of the UUID (UUID.bytes)                          *)
(***************************************************************************)
EXTENDS Integers, Sequences, FiniteSets, TLC

(***************************************************************************)
(* Text.  A Python string literal 'abc' is written S("abc").               *)
(***************************************************************************)

\* The printable ASCII characters of code points 32 .. 95 and 97 .. 126, in
\* order (the grave accent, 96, occurs in no literal of the program).
AsciiLow ==
  " !\"#$%&'()*+,-./0123456789:;<=>?@ABCDEFGHIJKLMNOPQRSTUVWXYZ[\\]^_"
AsciiHigh == "abcdefghijklmnopqrstuvwxyz{|}~"

\* ord(c) of a one-character string.
Ord(c) ==
  IF \E k \in 1..Len(AsciiLow) : SubSeq(AsciiLow, k, k) = c
  THEN 31 + CHOOSE k \in 1..Len(AsciiLow) : SubSeq(AsciiLow, k, k) = c
  ELSE 96 + CHOOSE k \in 1..Len(AsciiHigh) : SubSeq(AsciiHigh, k, k) = c

\* The code points of a string literal.
S(lit) == [i \in 1..Len(lit) |-> Ord(SubSeq(lit, i, i))]

\* b'...' : the bytes of an ASCII bytes literal.
B(lit) == [i \in 1..Len(lit) |-> Ord(SubSeq(lit, i, i))]

\* The decimal digits of a natural number.
FormatNat[n \in Nat] ==
  IF n < 10 THEN <<48 + n>> ELSE Append(FormatNat[n \div 10], 48 + (n % 10))

\* format(n, '') of an int, as an f-string replacement field renders it.
FormatInt(n) == IF n < 0 THEN S("-") \o FormatNat[-n] ELSE FormatNat[n]

\* '-'
Hyphen == S("-")

\* One lowercase hexadecimal digit.
HexDigit(n) == IF n < 10 THEN 48 + n ELSE 87 + n

\* '%02x' % b
HexByte(b) == <<HexDigit(b \div 16), HexDigit(b % 16)>>

\* bs.hex()
HexBytes[bs \in Seq(0..255)] ==
  IF Len(bs) = 0 THEN <<>> ELSE HexByte(Head(bs)) \o HexBytes[Tail(bs)]

\* str(u) of a UUID: '%032x' % u.int cut 8-4-4-4-12 and joined by '-'.
FormatUUID(u) ==
  HexBytes[SubSeq(u, 1, 4)] \o Hyphen \o HexBytes[SubSeq(u, 5, 6)] \o Hyphen
  \o HexBytes[SubSeq(u, 7, 8)] \o Hyphen \o HexBytes[SubSeq(u, 9, 10)]
  \o Hyphen \o HexBytes[SubSeq(u, 11, 16)]

(***************************************************************************)
(* str.encode() and bytes.decode('utf-8'): UTF-8, errors='strict'.         *)
(***************************************************************************)

\* A lone surrogate: str.encode() raises UnicodeEncodeError on it.
IsSurrogate(c) == c \in 55296..57343

\* The UTF-8 bytes of one code point.
Utf8Char(c) ==
  IF c < 128 THEN <<c>>
  ELSE IF c < 2048 THEN <<192 + (c \div 64), 128 + (c % 64)>>
  ELSE IF c < 65536
    THEN <<224 + (c \div 4096), 128 + ((c \div 64) % 64), 128 + (c % 64)>>
  ELSE <<240 + (c \div 262144), 128 + ((c \div 4096) % 64),
         128 + ((c \div 64) % 64), 128 + (c % 64)>>

\* Whether text.encode() returns (TRUE) or raises UnicodeEncodeError.
Encodable(text) == \A i \in 1..Len(text) : ~IsSurrogate(text[i])

\* text.encode() of encodable text: the bytes of its characters, in order
\* (computed by halves).
str_encode[text \in Seq(Nat)] ==
  IF Len(text) = 0 THEN <<>>
  ELSE IF Len(text) = 1 THEN Utf8Char(text[1])
  ELSE str_encode[SubSeq(text, 1, Len(text) \div 2)]
       \o str_encode[SubSeq(text, (Len(text) \div 2) + 1, Len(text))]

\* The length of the UTF-8 sequence a lead byte starts; 0 for no lead byte.
Utf8Len(b) ==
  IF b < 128 THEN 1
  ELSE IF b \in 194..223 THEN 2
  ELSE IF b \in 224..239 THEN 3
  ELSE IF b \in 240..244 THEN 4
  ELSE 0

IsCont(b) == b \in 128..191

\* The code point of the well-formed UTF-8 sequence that starts at data[i],
\* or -1 when no well-formed sequence starts there.
Utf8At(data, i) ==
  LET n == Utf8Len(data[i])
      c == CASE n = 1 -> data[i]
             [] n = 2 -> (data[i] - 192) * 64 + (data[i + 1] - 128)
             [] n = 3 -> (data[i] - 224) * 4096 + (data[i + 1] - 128) * 64
                         + (data[i + 2] - 128)
             [] n = 4 -> (data[i] - 240) * 262144 + (data[i + 1] - 128) * 4096
                         + (data[i + 2] - 128) * 64 + (data[i + 3] - 128)
  IN IF n = 0 \/ Len(data) < i + n - 1 THEN -1
     ELSE IF \E k \in (i + 1)..(i + n - 1) : ~IsCont(data[k]) THEN -1
     ELSE IF (n = 3 /\ c < 2048) \/ (n = 4 /\ c < 65536) THEN -1
     ELSE IF IsSurrogate(c) \/ c > 1114111 THEN -1
     ELSE c

\* Whether data.decode('utf-8') returns (TRUE) or raises UnicodeDecodeError:
\* every byte that is no continuation byte starts a well-formed sequence,
\* and every continuation byte belongs to one.
Decodable(data) ==
  \A i \in 1..Len(data) :
    IF IsCont(data[i])
    THEN \E j \in 1..(i - 1) :
           /\ ~IsCont(data[j])
           /\ j + Utf8Len(data[j]) > i
           /\ \A k \in (j + 1)..i : IsCont(data[k])
    ELSE Utf8At(data, i) >= 0

\* The code points of the sequences of decodable data that start in lo..hi
\* (computed by halves).
DecodeRange[data \in Seq(0..255), lo \in Nat, hi \in Nat] ==
  IF lo > hi THEN <<>>
  ELSE IF lo = hi
    THEN IF IsCont(data[lo]) THEN <<>> ELSE <<Utf8At(data, lo)>>
  ELSE DecodeRange[data, lo, (lo + hi) \div 2]
       \o DecodeRange[data, ((lo + hi) \div 2) + 1, hi]

\* data.decode('utf-8') of decodable data.
bytes_decode(data) == DecodeRange[data, 1, Len(data)]

(***************************************************************************)
(* base64.b64encode: RFC 4648 base64 with padding.                         *)
(***************************************************************************)

B64Alphabet ==
  S("ABCDEFGHIJKLMNOPQRSTUVWXYZabcdefghijklmnopqrstuvwxyz0123456789+/")

\* The character of one 6-bit group.
B64Char(n) == B64Alphabet[n + 1]

\* '='
B64Pad == Ord("=")

\* base64.b64encode(data): bytes to bytes.
b64encode[data \in Seq(0..255)] ==
  IF Len(data) = 0 THEN <<>>
  ELSE IF Len(data) = 1 THEN
    <<B64Char(data[1] \div 4), B64Char((data[1] % 4) * 16), B64Pad, B64Pad>>
  ELSE IF Len(data) = 2 THEN
    <<B64Char(data[1] \div 4),
      B64Char((data[1] % 4) * 16 + (data[2] \div 16)),
      B64Char((data[2] % 16) * 4), B64Pad>>
  ELSE
    <<B64Char(data[1] \div 4),
      B64Char((data[1] % 4) * 16 + (data[2] \div 16)),
      B64Char((data[2] % 16) * 4 + (data[3] \div 64)),
      B64Char(data[3] % 64)>> \o b64encode[SubSeq(data, 4, Len(data))]

(***************************************************************************)
(* hashlib.sha256: SHA-256 (FIPS 180-4).  A 32-bit word is the pair        *)
(* <<high 16 bits, low 16 bits>>.                                          *)
(***************************************************************************)

\* XorNib[a + 1][b + 1] is the bitwise exclusive or of the 4-bit a and b.
XorNib ==
  << << 0,  1,  2,  3,  4,  5,  6,  7,  8,  9, 10, 11, 12, 13, 14, 15>>,
     << 1,  0,  3,  2,  5,  4,  7,  6,  9,  8, 11, 10, 13, 12, 15, 14>>,
     << 2,  3,  0,  1,  6,  7,  4,  5, 10, 11,  8,  9, 14, 15, 12, 13>>,
     << 3,  2,  1,  0,  7,  6,  5,  4, 11, 10,  9,  8, 15, 14, 13, 12>>,
     << 4,  5,  6,  7,  0,  1,  2,  3, 12, 13, 14, 15,  8,  9, 10, 11>>,
     << 5,  4,  7,  6,  1,  0,  3,  2, 13, 12, 15, 14,  9,  8, 11, 10>>,
     << 6,  7,  4,  5,  2,  3,  0,  1, 14, 15, 12, 13, 10, 11,  8,  9>>,
     << 7,  6,  5,  4,  3,  2,  1,  0, 15, 14, 13, 12, 11, 10,  9,  8>>,
     << 8,  9, 10, 11, 12, 13, 14, 15,  0,  1,  2,  3,  4,  5,  6,  7>>,
     << 9,  8, 11, 10, 13, 12, 15, 14,  1,  0,  3,  2,  5,  4,  7,  6>>,
     <<10, 11,  8,  9, 14, 15, 12, 13,  2,  3,  0,  1,  6,  7,  4,  5>>,
     <<11, 10,  9,  8, 15, 14, 13, 12,  3,  2,  1,  0,  7,  6,  5,  4>>,
     <<12, 13, 14, 15,  8,  9, 10, 11,  4,  5,  6,  7,  0,  1,  2,  3>>,
     <<13, 12, 15, 14,  9,  8, 11, 10,  5,  4,  7,  6,  1,  0,  3,  2>>,
     <<14, 15, 12, 13, 10, 11,  8,  9,  6,  7,  4,  5,  2,  3,  0,  1>>,
     <<15, 14, 13, 12, 11, 10,  9,  8,  7,  6,  5,  4,  3,  2,  1,  0>> >>

\* AndNib[a + 1][b + 1] is the bitwise and of the 4-bit a and b.
AndNib ==
  << << 0,  0,  0,  0,  0,  0,  0,  0,  0,  0,  0,  0,  0,  0,  0,  0>>,
     << 0,  1,  0,  1,  0,  1,  0,  1,  0,  1,  0,  1,  0,  1,  0,  1>>,
     << 0,  0,  2,  2,  0,  0,  2,  2,  0,  0,  2,  2,  0,  0,  2,  2>>,
     << 0,  1,  2,  3,  0,  1,  2,  3,  0,  1,  2,  3,  0,  1,  2,  3>>,
     << 0,  0,  0,  0,  4,  4,  4,  4,  0,  0,  0,  0,  4,  4,  4,  4>>,
     << 0,  1,  0,  1,  4,  5,  4,  5,  0,  1,  0,  1,  4,  5,  4,  5>>,
     << 0,  0,  2,  2,  4,  4,  6,  6,  0,  0,  2,  2,  4,  4,  6,  6>>,
     << 0,  1,  2,  3,  4,  5,  6,  7,  0,  1,  2,  3,  4,  5,  6,  7>>,
     << 0,  0,  0,  0,  0,  0,  0,  0,  8,  8,  8,  8,  8,  8,  8,  8>>,
     << 0,  1,  0,  1,  0,  1,  0,  1,  8,  9,  8,  9,  8,  9,  8,  9>>,
     << 0,  0,  2,  2,  0,  0,  2,  2,  8,  8, 10, 10,  8,  8, 10, 10>>,
     << 0,  1,  2,  3,  0,  1,  2,  3,  8,  9, 10, 11,  8,  9, 10, 11>>,
     << 0,  0,  0,  0,  4,  4,  4,  4,  8,  8,  8,  8, 12, 12, 12, 12>>,
     << 0,  1,  0,  1,  4,  5,  4,  5,  8,  9,  8,  9, 12, 13, 12, 13>>,
     << 0,  0,  2,  2,  4,  4,  6,  6,  8,  8, 10, 10, 12, 12, 14, 14>>,
     << 0,  1,  2,  3,  4,  5,  6,  7,  8,  9, 10, 11, 12, 13, 14, 15>> >>

\* A bitwise operation, given by its 4-bit table T, on 8-bit a and b.
Op8(T, a, b) ==
  T[(a \div 16) + 1][(b \div 16) + 1] * 16 + T[(a % 16) + 1][(b % 16) + 1]

\* The same on 16-bit a and b.
Op16(T, a, b) ==
  Op8(T, a \div 256, b \div 256) * 256 + Op8(T, a % 256, b % 256)

Byte == 0..255

Bytes == Seq(Byte)

Word == (0..65535) \X (0..65535)

Xor[a \in Word, b \in Word] ==
  <<Op16(XorNib, a[1], b[1]), Op16(XorNib, a[2], b[2])>>

And[a \in Word, b \in Word] ==
  <<Op16(AndNib, a[1], b[1]), Op16(AndNib, a[2], b[2])>>

Not[a \in Word] == <<65535 - a[1], 65535 - a[2]>>

\* Addition modulo 2^32.
Add[a \in Word, b \in Word] ==
  <<(a[1] + b[1] + ((a[2] + b[2]) \div 65536)) % 65536, (a[2] + b[2]) % 65536>>

\* Rotation right by n < 16 bits.
RotrLow(a, n) ==
  <<(a[1] \div (2 ^ n)) + (a[2] % (2 ^ n)) * (2 ^ (16 - n)),
    (a[2] \div (2 ^ n)) + (a[1] % (2 ^ n)) * (2 ^ (16 - n))>>

\* Rotation right by n < 32 bits.
Rotr[a \in Word, n \in 0..31] ==
  IF n >= 16 THEN RotrLow(<<a[2], a[1]>>, n - 16) ELSE RotrLow(a, n)

\* Shift right by n < 16 bits.
Shr[a \in Word, n \in 0..15] ==
  <<a[1] \div (2 ^ n),
    (a[2] \div (2 ^ n)) + (a[1] % (2 ^ n)) * (2 ^ (16 - n))>>

BigSigma0[a \in Word] == Xor[Xor[Rotr[a, 2], Rotr[a, 13]], Rotr[a, 22]]
BigSigma1[a \in Word] == Xor[Xor[Rotr[a, 6], Rotr[a, 11]], Rotr[a, 25]]
SmallSigma0[a \in Word] == Xor[Xor[Rotr[a, 7], Rotr[a, 18]], Shr[a, 3]]
SmallSigma1[a \in Word] == Xor[Xor[Rotr[a, 17], Rotr[a, 19]], Shr[a, 10]]
Ch[e \in Word, f \in Word, g \in Word] == Xor[And[e, f], And[Not[e], g]]
Maj[a \in Word, b \in Word, c \in Word] ==
  Xor[Xor[And[a, b], And[a, c]], And[b, c]]

\* The round constants K[0..63].
K256 ==
  <<
     <<17034, 12184>>, <<28983, 17553>>, <<46528, 64463>>, <<59829, 56229>>,
     <<14678, 49755>>, <<23025, 4593>>, <<37439, 33444>>, <<43804, 24277>>,
     <<55303, 43672>>, <<4739, 23297>>, <<9265, 34238>>, <<21772, 32195>>,
     <<29374, 23924>>, <<32990, 45566>>, <<39900, 1703>>, <<49563, 61812>>,
     <<58523, 27073>>, <<61374, 18310>>, <<4033, 40390>>, <<9228, 41420>>,
     <<11753, 11375>>, <<19060, 33962>>, <<23728, 43484>>, <<30457, 35034>>,
     <<38974, 20818>>, <<43057, 50797>>, <<45059, 10184>>, <<48985, 32711>>,
     <<50912, 3059>>, <<54695, 37191>>, <<1738, 25425>>, <<5161, 10599>>,
     <<10167, 2693>>, <<11803, 8504>>, <<19756, 28156>>, <<21304, 3347>>,
     <<25866, 29524>>, <<30314, 2747>>, <<33218, 51502>>, <<37490, 11397>>,
     <<41663, 59553>>, <<43034, 26187>>, <<49739, 35696>>, <<51052, 20899>>,
     <<53650, 59417>>, <<54937, 1572>>, <<62478, 13701>>, <<4202, 41072>>,
     <<6564, 49430>>, <<7735, 27656>>, <<10056, 30540>>, <<13488, 48309>>,
     <<14620, 3251>>, <<20184, 43594>>, <<23452, 51791>>, <<26670, 28659>>,
     <<29839, 33518>>, <<30885, 25455>>, <<33992, 30740>>, <<36039, 520>>,
     <<37054, 65530>>, <<42064, 27883>>, <<48889, 41975>>, <<50801, 30962>> >>

\* The initial hash value H(0).
H256 ==
  <<
     <<27145, 58983>>, <<47975, 44677>>, <<15470, 62322>>, <<42319, 62778>>,
     <<20750, 21119>>, <<39685, 26764>>, <<8067, 55723>>, <<23520, 52505>> >>

\* The schedule W extended by its next n words (computed by halves).
Extend[W \in Seq(Word), n \in Nat] ==
  IF n = 0 THEN W
  ELSE IF n = 1
    THEN Append(W, Add[Add[SmallSigma1[W[Len(W) - 1]], W[Len(W) - 6]],
                       Add[SmallSigma0[W[Len(W) - 14]], W[Len(W) - 15]]])
  ELSE Extend[Extend[W, n \div 2], n - (n \div 2)]

\* The message schedule W[0..63], from its first 16 words.
Schedule(W) == Extend[W, 48]

\* The working variables a..h after a round with temporaries T1 and T2.
Shift[s \in Seq(Word), T1 \in Word, T2 \in Word] ==
  <<Add[T1, T2], s[1], s[2], s[3], Add[s[4], T1], s[5], s[6], s[7]>>

\* One round on the working variables a..h.
Round[s \in Seq(Word), Wt \in Word, Kt \in Word] ==
  Shift[s,
        Add[Add[Add[s[8], BigSigma1[s[5]]], Add[Ch[s[5], s[6], s[7]], Kt]], Wt],
        Add[BigSigma0[s[1]], Maj[s[1], s[2], s[3]]]]

\* Rounds lo .. hi on the working variables a..h (computed by halves).
Rounds[s \in Seq(Word), W \in Seq(Word), lo \in 1..64, hi \in 1..64] ==
  IF lo = hi THEN Round[s, W[lo], K256[lo]]
  ELSE Rounds[Rounds[s, W, lo, (lo + hi) \div 2], W, ((lo + hi) \div 2) + 1, hi]

\* The 16 big-endian words of a 64-byte block.
BlockWords(block) ==
  [i \in 1..16 |-> <<block[4 * i - 3] * 256 + block[4 * i - 2],
                     block[4 * i - 1] * 256 + block[4 * i]>>]

\* The sum of the hash value h and the working variables s.
AddAll[h \in Seq(Word), s \in Seq(Word)] ==
  <<Add[h[1], s[1]], Add[h[2], s[2]], Add[h[3], s[3]], Add[h[4], s[4]],
    Add[h[5], s[5]], Add[h[6], s[6]], Add[h[7], s[7]], Add[h[8], s[8]]>>

\* The hash value after one more block.
Compress[h \in Seq(Word), block \in Bytes] ==
  AddAll[h, Rounds[h, Schedule(BlockWords(block)), 1, 64]]

Zeros(n) == [i \in 1..n |-> 0]

\* The padded message: 0x80, zeros, and the bit length as 64 bits.
Sha256Pad[data \in Bytes] ==
  data \o <<128>> \o Zeros((119 - (Len(data) % 64)) % 64) \o Zeros(4)
  \o <<((Len(data) * 8) \div 16777216) % 256, ((Len(data) * 8) \div 65536) % 256,
       ((Len(data) * 8) \div 256) % 256, (Len(data) * 8) % 256>>

Sha256Blocks[h \in Seq(Word), padded \in Bytes] ==
  IF Len(padded) = 0 THEN h
  ELSE Sha256Blocks[Compress[h, SubSeq(padded, 1, 64)],
                    SubSeq(padded, 65, Len(padded))]

WordBytes(a) == <<a[1] \div 256, a[1] % 256, a[2] \div 256, a[2] % 256>>

\* The bytes of a hash value.
HashBytes[h \in Seq(Word)] ==
  WordBytes(h[1]) \o WordBytes(h[2]) \o WordBytes(h[3]) \o WordBytes(h[4])
  \o WordBytes(h[5]) \o WordBytes(h[6]) \o WordBytes(h[7]) \o WordBytes(h[8])

\* hashlib.sha256(data).digest()
Sha256[data \in Bytes] == HashBytes[Sha256Blocks[H256, Sha256Pad[data]]]

(***************************************************************************)
(* hmac.new(key, msg, digestmod=hashlib.sha256).digest(): HMAC (RFC 2104)  *)
(* over SHA-256, block size 64.                                            *)
(***************************************************************************)

XorByte(a, b) == Op8(XorNib, a, b)

\* The key as one block: hashed when longer than a block, padded with zeros.
HmacKeyBlock[key \in Bytes] ==
  IF Len(key) > 64 THEN Sha256[key] \o Zeros(32)
  ELSE key \o Zeros(64 - Len(key))

HmacPads[kb \in Bytes, msg \in Bytes] ==
  Sha256[[i \in 1..64 |-> XorByte(kb[i], 92)]
         \o Sha256[[i \in 1..64 |-> XorByte(kb[i], 54)] \o msg]]

HmacSha256[key \in Bytes, msg \in Bytes] == HmacPads[HmacKeyBlock[key], msg]

(***************************************************************************)
(* uuid.uuid4(): UUID(bytes=os.urandom(16), version=4).                    *)
(***************************************************************************)

\* Values os.urandom(16) may return: sixteen bytes each.  The first and
\* the third differ only in the bits UUID(version=4) overwrites.
Urandom16 ==
  { Zeros(16),
    <<18, 52, 86, 120, 154, 188, 222, 240, 17, 35, 69, 103, 137, 171, 205, 239>>,
    [i \in 1..16 |-> IF i = 7 THEN 16 ELSE 0] }

\* UUID(bytes=rnd, version=4): the variant bits are set to 10 and the
\* version nibble to 4.
uuid4(rnd) ==
  [i \in 1..16 |-> IF i = 7 THEN 64 + (rnd[i] % 16)
                   ELSE IF i = 9 THEN 128 + (rnd[i] % 64)
                   ELSE rnd[i]]

\* The UUIDs uuid4() may return.
UUID4s == {uuid4(rnd) : rnd \in Urandom16}

(***************************************************************************)
(* Namespaces (the locals of a call, the globals of a module): a function  *)
(* from the names bound so far to their values.                            *)
(***************************************************************************)

NoBindings == [n \in {} |-> 0]

Bind(ns, name, value) == (name :> value) @@ ns

\* Python raises NameError when a statement reads a name outside DOMAIN ns.
Bound(ns, names) == names \subseteq DOMAIN ns

None == "None"

(***************************************************************************)
(* The statements of paymentHandler (views.py), as functions of the        *)
(* variables they read.                                                    *)
(***************************************************************************)

\* Line 11.
TotalAmount == 110

\* A variant of ProductCode: a product code holding a lone surrogate, which
\* UTF-8 cannot encode.
ProductCodeSurrogate == <<69, 80, 65, 89, 56320>>

\* Line 13.
ProductCode == S("EPAYTEST")

\* Line 16.
Secret == B("8gBm/:&EnhH.1/q")

\* The literal parts of the f-string of line 14.
MessageHead == S("total_amount=")
MessageMid == S(",transaction_uuid=")
MessageTail == S(",product_code=")

MessageMidSpaced == S(", transaction_uuid=")
MessageTailSpaced == S(", product_code=")

\* A variant of Message: a space after each comma.
MessageSpaced(total_amount, uid, product_code) ==
  MessageHead \o FormatInt(total_amount)
  \o MessageMidSpaced \o FormatUUID(uid)
  \o MessageTailSpaced \o product_code

\* A variant of Message: the amount written into the f-string instead of
\* interpolated.
MessageFixedAmount(total_amount, uid, product_code) ==
  MessageHead \o FormatInt(TotalAmount)
  \o MessageMid \o FormatUUID(uid)
  \o MessageTail \o product_code

\* f'total_amount={total_amount},transaction_uuid={uid},product_code={product_code}'
Message(total_amount, uid, product_code) ==
  MessageHead \o FormatInt(total_amount)
  \o MessageMid \o FormatUUID(uid)
  \o MessageTail \o product_code

\* Lines 11-13: total_amount = 110; transaction_uuid = uid;
\* product_code = 'EPAYTEST'
BindFields(ns) ==
  Bind(Bind(Bind(ns, "total_amount", TotalAmount),
            "transaction_uuid", ns.uid),
       "product_code", ProductCode)

\* A variant of FormatMessage: the amount signed depends on the request.
FormatMessagePerRequest(ns) ==
  Message(IF ns.request.method = "POST" THEN ns.total_amount + 1
          ELSE ns.total_amount,
          ns.uid, ns.product_code)

\* A variant of FormatMessage: one UUID, drawn once, signed by every call.
FormatMessageFixedUuid(ns) ==
  Message(ns.total_amount, uuid4([i \in 1..16 |-> 0]), ns.product_code)

\* Line 14: the right-hand side.
FormatMessage(ns) == Message(ns.total_amount, ns.uid, ns.product_code)

\* Line 15: the right-hand side.
EncodeMessage(ns) == str_encode[ns.message]

(***************************************************************************)
(* The statements of secret.py.                                            *)
(***************************************************************************)

\* Line 8.
ScriptTotalAmount == 110

\* Line 10.
ScriptProductCode == S("EPAYTEST")

\* Line 13.
\* A variant of ScriptSecret: the script's copy of the key differs in a
\* character.
ScriptSecretOther == B("8gBm/:&EnhH.1/Q")

ScriptSecret == B("8gBm/:&EnhH.1/q")

ScriptMessageHead == S("total_amount=")
ScriptMessageMid == S(",transaction_uuid=")
ScriptMessageTail == S(",product_code=")

\* Line 11: f'total_amount={total_amount},transaction_uuid={uid},product_code={product_code}'
ScriptFormatMessage(ns) ==
  ScriptMessageHead \o FormatInt(ns.total_amount)
  \o ScriptMessageMid \o FormatUUID(ns.uid)
  \o ScriptMessageTail \o ns.product_code

\* Lines 8-10.
ScriptBindFields(ns) ==
  Bind(Bind(Bind(ns, "total_amount", ScriptTotalAmount),
            "transaction_uuid", ns.uid),
       "product_code", ScriptProductCode)

\* Line 12: the right-hand side.
ScriptEncodeMessage(ns) == str_encode[ns.message]

(***************************************************************************)
(* The inputs of the signature computation (lines 14-20 of views.py) as a  *)
(* function of total_amount, uid and product_code.                         *)
(***************************************************************************)

GenAmounts == {-11, 11, 110, 111}

GenProductCodes ==
  { S("EPAYTEST"),
    S("T"),
    S("EPAYTEST,product_code=EPAYTEST"),
    <<69, 233, 8364>>,          \* 'E' followed by two non-ASCII characters
    <<69, 56320>> }             \* 'E' followed by a lone surrogate

GenInputs == GenAmounts \X UUID4s \X GenProductCodes

(***************************************************************************)
(* hmac.new(key, msg, digestmod=hashlib.sha256).digest(), tabulated on the *)
(* calls the program makes.                                                *)
(***************************************************************************)

HmacCalls ==
  {<<Secret, str_encode[Message(in[1], in[2], in[3])]>> :
     in \in {t \in GenInputs \cup ({TotalAmount} \X UUID4s \X {ProductCode}) :
               Encodable(t[3])}}

\* HmacSha256 on HmacCalls, computed once.
DigestTable == [call \in HmacCalls |-> HmacSha256[call[1], call[2]]]

hmac_digest(key, msg) ==
  IF <<key, msg>> \in HmacCalls THEN DigestTable[<<key, msg>>]
  ELSE HmacSha256[key, msg]

\* A variant of ComputeDigest: key and data exchanged in hmac.new.
ComputeDigestSwapped(ns) ==
  Bind(Bind(ns, "secret", Secret), "digest", hmac_digest(ns.message, Secret))

\* Lines 16-18 of views.py: secret = b"8gBm/:&EnhH.1/q";
\* hmac_sha256 = hmac.new(secret, message, digestmod=hashlib.sha256);
\* digest = hmac_sha256.digest()
ComputeDigest(ns) ==
  Bind(Bind(ns, "secret", Secret), "digest", hmac_digest(Secret, ns.message))

\* A variant of EncodeDigest: the digest in hexadecimal.
EncodeDigestHex(ns) == HexBytes[ns.digest]

\* Line 20 of views.py: base64.b64encode(digest)
EncodeDigest(ns) == b64encode[ns.digest]

\* A variant of BuildContext: the form is given an amount that was not
\* signed.
BuildContextOtherAmount(ns) ==
  [transaction_uuid |-> ns.transaction_uuid,
   total_amount |-> ns.total_amount - 10,
   product_code |-> ns.product_code,
   signature |-> ns.signature]

\* Lines 23-28 of views.py.
BuildContext(ns) ==
  [transaction_uuid |-> ns.transaction_uuid,
   total_amount |-> ns.total_amount,
   product_code |-> ns.product_code,
   signature |-> ns.signature]

\* render(request, 'index.html', context=context): the response carries the
\* template's name and the context it is rendered with.
render(req, template, ctx) ==
  [request |-> req, template |-> template, context |-> ctx]

\* Lines 13-15 of secret.py.
ScriptComputeDigest(ns) ==
  Bind(Bind(ns, "secret", ScriptSecret),
       "digest", hmac_digest(ScriptSecret, ns.message))

\* Line 17 of secret.py: base64.b64encode(digest)
ScriptEncodeDigest(ns) == b64encode[ns.digest]

(***************************************************************************)
(* State.  The web application handles up to MaxInvocations requests, each *)
(* by a call of paymentHandler with a frame of its own; calls of different *)
(* threads interleave between statements.  secret.py runs as a process of  *)
(* its own.                                                                *)
(***************************************************************************)

MaxInvocations == 2

Invocations == 1..MaxInvocations

\* The requests a client may send.
Requests == {[method |-> "GET"], [method |-> "POST"]}

VARIABLES
  pc,        \* pc[i]: the line invocation i executes next
  frames,    \* frames[f]: the namespace of frame f
  drawn,     \* drawn[i]: what os.urandom returned to invocation i
  response,  \* response[i]: what invocation i returned
  spc,       \* the line secret.py executes next
  globals,   \* the module namespace of secret.py
  sdrawn,    \* what os.urandom returned to secret.py
  stdout     \* the arguments of the print calls of secret.py, in order

vars == <<pc, frames, drawn, response, spc, globals, sdrawn, stdout>>

webVars == <<pc, frames, drawn, response>>

scriptVars == <<spc, globals, sdrawn, stdout>>

\* The frame of invocation i: every call has a frame of its own.
\* A variant of FrameOf: the names of paymentHandler are module globals,
\* shared by all calls.
SharedFrame(i) == 1

FrameOf(i) == i

Locals(i) == frames[FrameOf(i)]

SetLocals(i, ns) == frames' = [frames EXCEPT ![FrameOf(i)] = ns]

Goto(i, line) == pc' = [pc EXCEPT ![i] = line]

\* The statement raises: the exception leaves paymentHandler.
Raise(i) == Goto(i, "raised") /\ UNCHANGED <<frames, drawn, response>>

WebIdle ==
  /\ pc = [i \in Invocations |-> "idle"]
  /\ frames = [i \in Invocations |-> NoBindings]
  /\ drawn = [i \in Invocations |-> None]
  /\ response = [i \in Invocations |-> None]

ScriptIdle ==
  /\ spc = "l6"
  /\ globals = NoBindings
  /\ sdrawn = None
  /\ stdout = <<>>

Init == WebIdle /\ ScriptIdle

(***************************************************************************)
(* paymentHandler (views.py).                                              *)
(***************************************************************************)

\* Line 8: Django calls paymentHandler(request).
Call(i) ==
  /\ pc[i] = "idle"
  /\ \E req \in Requests : SetLocals(i, Bind(NoBindings, "request", req))
  /\ Goto(i, "l9")
  /\ UNCHANGED <<drawn, response, scriptVars>>

\* Line 9: uid = uuid4()
L9(i) ==
  /\ pc[i] = "l9"
  /\ \E rnd \in Urandom16 :
       /\ drawn' = [drawn EXCEPT ![i] = rnd]
       /\ SetLocals(i, Bind(Locals(i), "uid", uuid4(rnd)))
  /\ Goto(i, "l11")
  /\ UNCHANGED <<response, scriptVars>>

\* Lines 11-13: total_amount = 110; transaction_uuid = uid;
\* product_code = 'EPAYTEST'
L11(i) ==
  /\ pc[i] = "l11"
  /\ IF Bound(Locals(i), {"uid"})
     THEN /\ SetLocals(i, BindFields(Locals(i)))
          /\ Goto(i, "l14")
          /\ UNCHANGED <<drawn, response>>
     ELSE Raise(i)
  /\ UNCHANGED scriptVars

\* Line 14: message = f'total_amount={total_amount},...'
L14(i) ==
  /\ pc[i] = "l14"
  /\ IF Bound(Locals(i), {"total_amount", "uid", "product_code"})
     THEN /\ SetLocals(i, Bind(Locals(i), "message", FormatMessage(Locals(i))))
          /\ Goto(i, "l15")
          /\ UNCHANGED <<drawn, response>>
     ELSE Raise(i)
  /\ UNCHANGED scriptVars

\* Line 15: message = message.encode()
L15(i) ==
  /\ pc[i] = "l15"
  /\ IF Bound(Locals(i), {"message"}) /\ Encodable(Locals(i).message)
     THEN /\ SetLocals(i, Bind(Locals(i), "message", EncodeMessage(Locals(i))))
          /\ Goto(i, "l16")
          /\ UNCHANGED <<drawn, response>>
     ELSE Raise(i)
  /\ UNCHANGED scriptVars

\* Lines 16-18: secret = b"8gBm/:&EnhH.1/q"; hmac_sha256 = hmac.new(secret,
\* message, digestmod=hashlib.sha256); digest = hmac_sha256.digest()
L16(i) ==
  /\ pc[i] = "l16"
  /\ IF Bound(Locals(i), {"message"})
     THEN /\ SetLocals(i, ComputeDigest(Locals(i)))
          /\ Goto(i, "l20")
          /\ UNCHANGED <<drawn, response>>
     ELSE Raise(i)
  /\ UNCHANGED scriptVars

\* Line 20: signature = base64.b64encode(digest).decode('utf-8')
L20(i) ==
  /\ pc[i] = "l20"
  /\ IF Bound(Locals(i), {"digest"}) /\ Decodable(EncodeDigest(Locals(i)))
     THEN /\ SetLocals(i, Bind(Locals(i), "signature",
                               bytes_decode(EncodeDigest(Locals(i)))))
          /\ Goto(i, "l23")
          /\ UNCHANGED <<drawn, response>>
     ELSE Raise(i)
  /\ UNCHANGED scriptVars

\* Lines 23-28: context = {...}
L23(i) ==
  /\ pc[i] = "l23"
  /\ IF Bound(Locals(i), {"transaction_uuid", "total_amount", "product_code",
                          "signature"})
     THEN /\ SetLocals(i, Bind(Locals(i), "context", BuildContext(Locals(i))))
          /\ Goto(i, "l29")
          /\ UNCHANGED <<drawn, response>>
     ELSE Raise(i)
  /\ UNCHANGED scriptVars

\* Line 29: return render(request, 'index.html', context=context); the
\* frame is dropped.
L29(i) ==
  /\ pc[i] = "l29"
  /\ IF Bound(Locals(i), {"request", "context"})
     THEN /\ response' = [response EXCEPT ![i] =
                 render(Locals(i).request, "index.html", Locals(i).context)]
          /\ SetLocals(i, NoBindings)
          /\ Goto(i, "returned")
          /\ UNCHANGED drawn
     ELSE Raise(i)
  /\ UNCHANGED scriptVars

paymentHandler(i) ==
  \/ L9(i) \/ L11(i) \/ L14(i) \/ L15(i) \/ L16(i) \/ L20(i) \/ L23(i)
  \/ L29(i)

Next == \E i \in Invocations : Call(i) \/ paymentHandler(i)

Spec == Init /\ [][Next]_vars

(***************************************************************************)
(* secret.py, run as a script.                                             *)
(***************************************************************************)

SetGlobals(ns) == globals' = ns

\* print(label, value)
print(label, value) == stdout' = Append(stdout, <<label, value>>)

\* Lines 6-7: uid = uuid4(); print('UID: ', uid)
S6 ==
  /\ spc = "l6"
  /\ \E rnd \in Urandom16 :
       /\ sdrawn' = rnd
       /\ SetGlobals(Bind(globals, "uid", uuid4(rnd)))
       /\ print("UID: ", uuid4(rnd))
  /\ spc' = "l8"
  /\ UNCHANGED webVars

\* Lines 8-10: total_amount = 110; transaction_uuid = uid;
\* product_code = 'EPAYTEST'
S8 ==
  /\ spc = "l8"
  /\ SetGlobals(ScriptBindFields(globals))
  /\ spc' = "l11"
  /\ UNCHANGED <<sdrawn, stdout, webVars>>

\* Line 11: message = f'total_amount={total_amount},...'
S11 ==
  /\ spc = "l11"
  /\ SetGlobals(Bind(globals, "message", ScriptFormatMessage(globals)))
  /\ spc' = "l12"
  /\ UNCHANGED <<sdrawn, stdout, webVars>>

\* Line 12: message = message.encode()
S12 ==
  /\ spc = "l12"
  /\ IF Encodable(globals.message)
     THEN /\ SetGlobals(Bind(globals, "message", ScriptEncodeMessage(globals)))
          /\ spc' = "l13"
     ELSE /\ spc' = "raised"
          /\ UNCHANGED globals
  /\ UNCHANGED <<sdrawn, stdout, webVars>>

\* Lines 13-16: secret = b"8gBm/:&EnhH.1/q"; hmac_sha256 = hmac.new(...);
\* digest = hmac_sha256.digest(); print('Digest: ', digest)
S13 ==
  /\ spc = "l13"
  /\ SetGlobals(ScriptComputeDigest(globals))
  /\ print("Digest: ", ScriptComputeDigest(globals).digest)
  /\ spc' = "l17"
  /\ UNCHANGED <<sdrawn, webVars>>

\* Lines 17-18: signature = base64.b64encode(digest).decode('utf-8');
\* print('Signature: ', signature)
S17 ==
  /\ spc = "l17"
  /\ IF Decodable(ScriptEncodeDigest(globals))
     THEN /\ SetGlobals(Bind(globals, "signature",
                             bytes_decode(ScriptEncodeDigest(globals))))
          /\ print("Signature: ", bytes_decode(ScriptEncodeDigest(globals)))
          /\ spc' = "exit"
     ELSE /\ spc' = "raised"
          /\ UNCHANGED <<globals, stdout>>
  /\ UNCHANGED <<sdrawn, webVars>>

script == S6 \/ S8 \/ S11 \/ S12 \/ S13 \/ S17

\* secret.py beside one request to the web application.
NextScript == script \/ Call(1) \/ paymentHandler(1)

SpecScript == Init /\ [][NextScript]_vars

(***************************************************************************)
(* Lines 14-20 of paymentHandler on arbitrary typed inputs: the call       *)
(* starts at line 14 with total_amount, uid and product_code bound to an   *)
(* int, a UUID and a str.                                                  *)
(***************************************************************************)

GenLocals(in) ==
  [request |-> [method |-> "GET"], total_amount |-> in[1], uid |-> in[2],
   transaction_uuid |-> in[2], product_code |-> in[3]]

InitGen ==
  /\ ScriptIdle
  /\ \E in \in GenInputs :
       /\ pc = [i \in Invocations |-> IF i = 1 THEN "l14" ELSE "idle"]
       /\ frames = [i \in Invocations |->
                      IF i = FrameOf(1) THEN GenLocals(in) ELSE NoBindings]
  /\ drawn = [i \in Invocations |-> None]
  /\ response = [i \in Invocations |-> None]

NextGen == L14(1) \/ L15(1) \/ L16(1) \/ L20(1)

SpecGen == InitGen /\ [][NextGen]_vars

(***************************************************************************)
(* Properties.                                                             *)
(***************************************************************************)

Returned(i) == pc[i] = "returned"

\* Invocation i has executed line 14 and not yet line 15: message is a str.
HasText(i) == pc[i] = "l15"

\* Invocation i has executed line 20 and still has its frame.
HasSignature(i) == pc[i] \in {"l23", "l29"}

ContextOf(i) == response[i].context

\* The signature the specification prescribes for three field values: the
\* padded base64 text of HMAC-SHA256 under the secret of the UTF-8 bytes of
\* the canonical message.
PrescribedSignature(total_amount, uid, product_code) ==
  bytes_decode(b64encode[
    hmac_digest(Secret, str_encode[Message(total_amount, uid, product_code)])])

\* The field triples the specifications below sign.
SignableInputs ==
  {<<t[1], t[2], t[3]>> :
     t \in {in \in GenInputs \cup ({TotalAmount} \X UUID4s \X {ProductCode}) :
              Encodable(in[3])}}

\* The UTF-8 bytes of the canonical messages and the prescribed signatures
\* of SignableInputs, computed once.
CanonicalBytesTable ==
  [t \in SignableInputs |-> str_encode[Message(t[1], t[2], t[3])]]

SignatureTable ==
  [t \in SignableInputs |-> PrescribedSignature(t[1], t[2], t[3])]

CanonicalBytes(total_amount, uid, product_code) ==
  IF <<total_amount, uid, product_code>> \in SignableInputs
  THEN CanonicalBytesTable[<<total_amount, uid, product_code>>]
  ELSE str_encode[Message(total_amount, uid, product_code)]

SignatureOf(total_amount, uid, product_code) ==
  IF <<total_amount, uid, product_code>> \in SignableInputs
  THEN SignatureTable[<<total_amount, uid, product_code>>]
  ELSE PrescribedSignature(total_amount, uid, product_code)

KnownSecret == B("8gBm/:&EnhH.1/q")

KnownProductCode == S("EPAYTEST")

\* The UUID 00000000-0000-4000-8000-000000000000.
KnownUUID == uuid4(Zeros(16))

KnownMessage ==
  S("total_amount=110,transaction_uuid=00000000-0000-4000-8000-000000000000,product_code=EPAYTEST")

\* base64 of HMAC-SHA256 of KnownMessage under the secret, as CPython's
\* hmac, hashlib and base64 compute it.
KnownSignature == S("wf57eoj0tRVS50vwciQNA5ihZpX9pzObL3LqlF3zUjg=")

CanonicalHead == S("total_amount=")
CanonicalMid == S(",transaction_uuid=")
CanonicalTail == S(",product_code=")

\* C1: for every total_amount, transaction_uuid and product_code, the
\* message built by line 14 is exactly 'total_amount=' + total_amount +
\* ',transaction_uuid=' + transaction_uuid + ',product_code=' + product_code,
\* with nothing added; for 110, 00000000-0000-4000-8000-000000000000 and
\* EPAYTEST it is the known message.
C1_CanonicalMessage ==
  \A i \in Invocations :
    HasText(i) =>
      /\ Locals(i).message =
           CanonicalHead \o FormatInt(Locals(i).total_amount)
           \o CanonicalMid \o FormatUUID(Locals(i).uid)
           \o CanonicalTail \o Locals(i).product_code
      /\ ( /\ Locals(i).total_amount = 110
           /\ Locals(i).uid = KnownUUID
           /\ Locals(i).product_code = KnownProductCode )
         => Locals(i).message = KnownMessage

C1_Witness ==
  \E i \in Invocations :
    /\ HasText(i)
    /\ Locals(i).total_amount = 110
    /\ Locals(i).uid = KnownUUID
    /\ Locals(i).product_code = KnownProductCode

\* C2: the signature is the padded base64 text of the HMAC-SHA256 digest
\* keyed by the secret over the bytes of the canonical message, the stages
\* running in the order message, bytes, digest, base64: after line 15
\* message holds the UTF-8 bytes of the canonical message, after line 18
\* digest is HMAC-SHA256(secret, those bytes), after line 20 signature is the
\* base64 text of digest, and the response carries that signature (for the known UUID,
\* the known signature).
C2_SignaturePipeline ==
  \A i \in Invocations :
    /\ pc[i] \in {"l16", "l20", "l23", "l29"} =>
         Locals(i).message =
           CanonicalBytes(TotalAmount, uuid4(drawn[i]), ProductCode)
    /\ pc[i] \in {"l20", "l23", "l29"} =>
         /\ Locals(i).secret = KnownSecret
         /\ Locals(i).digest = hmac_digest(KnownSecret, Locals(i).message)
         /\ Len(Locals(i).digest) = 32
    /\ pc[i] = "l23" =>
         Locals(i).signature = bytes_decode(b64encode[Locals(i).digest])
    /\ pc[i] = "l29" =>
         Locals(i).signature =
           SignatureOf(TotalAmount, uuid4(drawn[i]), ProductCode)
    /\ Returned(i) =>
         /\ ContextOf(i).signature =
              SignatureOf(TotalAmount, uuid4(drawn[i]), ProductCode)
         /\ uuid4(drawn[i]) = KnownUUID =>
              ContextOf(i).signature = KnownSignature

C2_Witness ==
  \E i \in Invocations : Returned(i) /\ uuid4(drawn[i]) = KnownUUID

\* C3: two invocations with equal total_amount, transaction_uuid and
\* product_code (the secret is fixed) return equal signatures, whatever
\* their requests and whatever ran before them.
C3_Determinism ==
  \A i, j \in Invocations :
    ( /\ Returned(i) /\ Returned(j)
      /\ ContextOf(i).total_amount = ContextOf(j).total_amount
      /\ ContextOf(i).transaction_uuid = ContextOf(j).transaction_uuid
      /\ ContextOf(i).product_code = ContextOf(j).product_code )
    => ContextOf(i).signature = ContextOf(j).signature

C3_Witness ==
  \E i, j \in Invocations :
    /\ Returned(i) /\ Returned(j)
    /\ response[i].request # response[j].request
    /\ drawn[i] # drawn[j]
    /\ ContextOf(i).transaction_uuid = ContextOf(j).transaction_uuid

\* The fields invocation i signs.
FieldsOf(i) ==
  <<Locals(i).total_amount, Locals(i).uid, Locals(i).product_code>>

\* C4: no other triple of an integer amount, a UUID and a non-empty product
\* code has the canonical message of the triple that is signed, and none
\* has its signature: changing any field changes the message and the
\* signature.
C4_Sensitivity ==
  \A i \in Invocations :
    /\ HasText(i) =>
         \A t \in GenInputs :
           t # FieldsOf(i) => Message(t[1], t[2], t[3]) # Locals(i).message
    /\ HasSignature(i) =>
         \A t \in GenInputs :
           (t # FieldsOf(i) /\ Encodable(t[3])) =>
             SignatureOf(t[1], t[2], t[3]) # Locals(i).signature

C4_Witness ==
  \E i \in Invocations :
    /\ HasSignature(i)
    /\ Locals(i).total_amount = 110
    /\ <<111, Locals(i).uid, Locals(i).product_code>> \in GenInputs

\* The characters of the base64 alphabet.
Base64Characters ==
  {Ord(SubSeq(AsciiLow, k, k)) : k \in 34..59}          \* A-Z
  \cup {Ord(SubSeq(AsciiHigh, k, k)) : k \in 1..26}     \* a-z
  \cup {Ord(SubSeq(AsciiLow, k, k)) : k \in 17..26}     \* 0-9
  \cup {Ord("+"), Ord("/")}

\* C5: for every input the signature is 44 characters long, its first 43
\* characters are characters of the base64 alphabet and its last character
\* is the only '='.
C5_Length44 ==
  \A i \in Invocations :
    HasSignature(i) =>
      /\ Len(Locals(i).signature) = 44
      /\ \A k \in 1..43 : Locals(i).signature[k] \in Base64Characters
      /\ Locals(i).signature[44] = Ord("=")

C5_Witness ==
  \E i \in Invocations : HasSignature(i) /\ Locals(i).product_code # KnownProductCode

\* C6 as claimed: two separate invocations never use the same
\* transaction_uuid and never produce the same signature.
C6_NeverSameUuid ==
  \A i, j \in Invocations :
    (i # j /\ Returned(i) /\ Returned(j)) =>
      /\ ContextOf(i).transaction_uuid # ContextOf(j).transaction_uuid
      /\ ContextOf(i).signature # ContextOf(j).signature

\* C6 as amended: every invocation uses the UUID its own call of uuid4
\* returned, and two invocations return the same signature exactly when
\* uuid4 returned them the same UUID.
C6_FreshPerInvocation ==
  /\ \A i \in Invocations :
       Returned(i) => ContextOf(i).transaction_uuid = uuid4(drawn[i])
  /\ \A i, j \in Invocations :
       (Returned(i) /\ Returned(j)) =>
         ( ContextOf(i).signature = ContextOf(j).signature
           <=> uuid4(drawn[i]) = uuid4(drawn[j]) )

C6_Witness ==
  \E i, j \in Invocations :
    /\ Returned(i) /\ Returned(j)
    /\ uuid4(drawn[i]) # uuid4(drawn[j])

ContextKeys == {"transaction_uuid", "total_amount", "product_code", "signature"}

\* C7: the context has exactly the entries transaction_uuid, total_amount,
\* product_code and signature; its signature is the signature of the
\* canonical message of its own three values, and while the frame lives the
\* bytes that were signed are the bytes of that message.
C7_ContextConsistent ==
  \A i \in Invocations :
    /\ pc[i] = "l29" =>
         /\ DOMAIN Locals(i).context = ContextKeys
         /\ Locals(i).message =
              CanonicalBytes(Locals(i).context.total_amount,
                             Locals(i).context.transaction_uuid,
                             Locals(i).context.product_code)
         /\ Locals(i).context.signature = Locals(i).signature
    /\ Returned(i) =>
         /\ DOMAIN ContextOf(i) = ContextKeys
         /\ response[i].template = "index.html"
         /\ ContextOf(i).signature =
              SignatureOf(ContextOf(i).total_amount,
                          ContextOf(i).transaction_uuid,
                          ContextOf(i).product_code)

C7_Witness == \E i \in Invocations : Returned(i) /\ response[i].request.method = "POST"

\* What a call of paymentHandler that runs alone returns when os.urandom
\* gives it rnd.
AloneContext(rnd) ==
  [transaction_uuid |-> uuid4(rnd),
   total_amount |-> 110,
   product_code |-> KnownProductCode,
   signature |-> SignatureOf(110, uuid4(rnd), KnownProductCode)]

\* C8: under every interleaving, each invocation returns what it would
\* return alone: the context of its own transaction_uuid, never a value of
\* another invocation.
C8_Isolation ==
  \A i \in Invocations :
    /\ Returned(i) => ContextOf(i) = AloneContext(drawn[i])
    /\ pc[i] \in {"l14", "l15", "l16", "l20", "l23", "l29"} =>
         /\ Bound(Locals(i), {"uid", "transaction_uuid"})
         /\ Locals(i).uid = uuid4(drawn[i])
         /\ Locals(i).transaction_uuid = uuid4(drawn[i])

\* One invocation has returned while another, with another UUID, was between
\* its lines 9 and 29.
C8_Witness ==
  \E i, j \in Invocations :
    /\ i # j
    /\ Returned(i)
    /\ pc[j] = "l14"
    /\ uuid4(drawn[i]) # uuid4(drawn[j])

\* C9: secret.py and paymentHandler, given the same UUID, build the same
\* message, use the same secret and produce the same digest and signature.
C9_ScriptEquivalent ==
  ( /\ Bound(globals, {"uid"})
    /\ pc[1] \notin {"idle", "l9", "raised"}
    /\ globals.uid = uuid4(drawn[1]) ) =>
    /\ (spc = "l12" /\ pc[1] = "l15") => globals.message = Locals(1).message
    /\ (spc = "l13" /\ pc[1] = "l16") =>
         /\ globals.message = Locals(1).message
         /\ globals.total_amount = Locals(1).total_amount
         /\ globals.product_code = Locals(1).product_code
    /\ (spc \in {"l17", "exit"} /\ pc[1] \in {"l20", "l23", "l29"}) =>
         /\ globals.secret = Locals(1).secret
         /\ globals.digest = Locals(1).digest
    /\ (spc = "exit" /\ Returned(1)) =>
         /\ globals.signature = ContextOf(1).signature
         /\ stdout[3] = <<"Signature: ", ContextOf(1).signature>>

C9_Witness ==
  /\ spc = "exit"
  /\ Returned(1)
  /\ globals.uid = ContextOf(1).transaction_uuid
  /\ sdrawn # drawn[1]

\* The names each line of paymentHandler reads.
Reads ==
  [l9 |-> {}, l11 |-> {"uid"},
   l14 |-> {"total_amount", "uid", "product_code"},
   l15 |-> {"message"}, l16 |-> {"message"}, l20 |-> {"digest"},
   l23 |-> {"transaction_uuid", "total_amount", "product_code", "signature"},
   l29 |-> {"request", "context"}]

\* C10: whatever its request, no invocation enters an error state: every
\* line an invocation is about to execute finds the names it reads bound,
\* the text line 15 encodes is encodable, and an invocation that has
\* returned has returned the rendered context.
C10_NoError ==
  \A i \in Invocations :
    /\ pc[i] # "raised"
    /\ pc[i] \in DOMAIN Reads => Bound(Locals(i), Reads[pc[i]])
    /\ pc[i] = "l15" => Encodable(Locals(i).message)
    /\ Returned(i) =>
         /\ response[i].request \in Requests
         /\ "signature" \in DOMAIN response[i].context

C10_Witness ==
  \E i, j \in Invocations :
    /\ Returned(i) /\ Returned(j)
    /\ response[i].request.method = "GET"
    /\ response[j].request.method = "POST"

====
